---- MODULE Spec2Model ----
(***************************************************************************)
(* Model of run_tunnel.py: the `run` command spawns ssh through sh with    *)
(* two output callbacks (interact_with_loop), which forward every line     *)
(* into one of two urwid watch pipes and answer the host-key prompt; the   *)
(* urwid main loop reads the pipes (update_body) and the keyboard          *)
(* (exit_on_q); after the loop, run calls cmd.terminate() and cmd.wait().  *)
(*                                                                         *)
(* Threads: the main thread (run, the urwid loop), sh's output thread      *)
(* (the callbacks), sh's background thread (reaps the child), the child.   *)
(***************************************************************************)
EXTENDS Integers, Sequences, FiniteSets, TLC

\* ------------------------------------------------------------------ bounds
\* Lines the child writes in one session.
MaxLines == 3
\* Capacity of a watch pipe in bytes (the kernel's pipe buffer, scaled down).
PipeCap == 5
\* Bytes one os.read of a watch pipe returns at most (urwid reads a fixed
\* block size per notification, scaled down).
ReadSize == 3

\* ------------------------------------------------------------- text, bytes
\* Characters are one-character strings, bytes are integers.  "A","r" stand
\* for the text of the prompt prefix, "e'" is a non-ASCII character whose
\* UTF-8 encoding takes two bytes.
Origins == {"out", "err"}

Whitespace == {" ", "\n"}

\* 'Are you sure you want' (shortened to its first two characters).
PROMPT_PREFIX == <<"A", "r">>

\* 'yes\n'
YES == <<"y", "e", "s", "\n">>

\* Lines sh hands to the callbacks (_out_bufsize=1: one line, newline kept).
ChildLines ==
    { <<"A", "r", "\n">>,       \* the host-key prompt
      <<"e'", "\n">>,           \* an ordinary line, with a two-byte character
      <<"\n">> }                \* a blank line

\* str.encode(): UTF-8.
EncodeChar(c) ==
    CASE c = "A"  -> <<65>>
      [] c = "r"  -> <<114>>
      [] c = " "  -> <<32>>
      [] c = "\n" -> <<10>>
      [] c = "e'" -> <<195, 169>>

RECURSIVE Encode(_)
Encode(s) == IF s = <<>> THEN <<>> ELSE EncodeChar(Head(s)) \o Encode(Tail(s))

\* bytes.decode(): strict UTF-8.  A lead byte needs its continuation byte,
\* a continuation byte alone is invalid: both raise UnicodeDecodeError.
IsAscii(b) == b < 128
IsLead2(b) == b \in 194..223
IsCont(b) == b \in 128..191

RECURSIVE Decodable(_)
Decodable(bs) ==
    IF bs = <<>> THEN TRUE
    ELSE IF IsAscii(Head(bs)) THEN Decodable(Tail(bs))
    ELSE IF IsLead2(Head(bs)) /\ Len(bs) >= 2 /\ IsCont(bs[2])
         THEN Decodable(Tail(Tail(bs)))
    ELSE FALSE

DecodeAscii(b) ==
    CASE b = 65  -> "A"
      [] b = 114 -> "r"
      [] b = 32  -> " "
      [] b = 10  -> "\n"

RECURSIVE Decode(_)
Decode(bs) ==
    IF bs = <<>> THEN <<>>
    ELSE IF IsAscii(Head(bs)) THEN <<DecodeAscii(Head(bs))>> \o Decode(Tail(bs))
    ELSE <<"e'">> \o Decode(Tail(Tail(bs)))

\* str.strip(): leading and trailing whitespace removed, inner kept.
RECURSIVE LStrip(_)
LStrip(s) ==
    IF s # <<>> /\ Head(s) \in Whitespace THEN LStrip(Tail(s)) ELSE s

RECURSIVE RStrip(_)
RStrip(s) ==
    IF s # <<>> /\ s[Len(s)] \in Whitespace
    THEN RStrip(SubSeq(s, 1, Len(s) - 1)) ELSE s

Strip(s) == RStrip(LStrip(s))

\* str.startswith(prefix)
StartsWith(s, prefix) ==
    /\ Len(s) >= Len(prefix)
    /\ SubSeq(s, 1, Len(prefix)) = prefix

\* ------------------------------------------------------------------- state
VARIABLES
    pc,          \* main thread in run: lookup, options, units, cmd_args, spawn,
                 \* loop, terminate, wait, done, raised
    exc,         \* the exception that left run, "none" while there is none
    child,       \* NOT_STARTED, RUNNING, TERMINATING, ZOMBIE (exited), REAPED
    exit_code,   \* "none", "0", "255" (own exit), "SIGTERM" (killed by it)
    cb,          \* the callback sh's output thread is in: stage, line, origin
    pipe,        \* the two watch pipes, origin -> bytes written and not read
    ready,       \* the pipes the loop's select found readable, not yet served
    scrollback,  \* list_walker: the texts of the entries, oldest first
    focus,       \* list_walker's focus index (0-based), -1 for None
    in_queue,    \* what the callbacks put on the child's stdin queue
    delivered,   \* history: the lines handed to the callbacks, in call order
    last_ui,     \* history: the loop's last handler and the focus before it
    cli,         \* run's arguments: ssh_host, target, verbose, the options given
    config_dict, \* the loaded config: its list of targets
    cfg_params,  \* the for loop's variable: <<>> while unbound, else <<dict>>
    local_unit,  \* text, <<>> before it is computed
    remote_unit, \* text, <<>> before it is computed
    cmd_args,    \* the argv for ssh: a list of texts
    tui_info     \* TUIHeaderInfo, <<>> before it is built, else <<record>>

argvars == <<cli, config_dict, cfg_params, local_unit, remote_unit, cmd_args,
             tui_info>>

vars == <<pc, exc, child, exit_code, cb, pipe, ready, scrollback, focus,
          in_queue, delivered, last_ui, argvars>>

IdleCallback == [stage |-> "idle", line |-> <<>>, origin |-> "out"]

\* The Python process is alive: run has neither returned nor raised.
ProcessAlive == pc \notin {"done", "raised"}

Min(a, b) == IF a < b THEN a ELSE b

\* ------------------------------------------------ run's arguments, config
\* A text is a sequence of pieces: " " is a blank, every other piece is a
\* run of characters without whitespace.
Text(str) == <<str>>

\* f'{port}'
PortText(port) == <<ToString(port)>>

\* Entries of [[targets]] in the config file.
TargetWeb ==
    [name |-> "analytics-web",
     local_address |-> Text("127.0.0.1"), local_port |-> 8080,
     remote_address |-> Text("127.0.0.1"), remote_port |-> 8080]

TargetSock ==
    [name |-> "docker-sock",
     local_sock |-> Text("/tmp/docker.sock"),
     remote_sock |-> Text("/var/run/docker.sock")]

\* A socket in a directory whose name holds a blank.
TargetSpaced ==
    [name |-> "backup-sock",
     local_sock |-> <<"/tmp/my", " ", "backups/b.sock">>,
     remote_sock |-> Text("/run/b.sock")]

\* config_dict['targets'] of the config files tried.
ConfigTargets ==
    { <<>>,
      <<TargetWeb, TargetSock>>,
      <<TargetSock, TargetWeb>>,
      <<TargetWeb, TargetSpaced, TargetSock>> }

\* The target argument: the names above and one that no config has.
TargetNames == {"analytics-web", "docker-sock", "backup-sock", "staging-web"}

\* The 'Target options to replace' given on the command line, as
\* <<option, value>> pairs; an option left out is None.
OptionSets ==
    { {},
      {<<"local_port", 9090>>},
      {<<"local_sock", Text("/tmp/other.sock")>>},
      {<<"remote_sock", Text("/run/other.sock")>>},
      {<<"local_address", Text("0.0.0.0")>>, <<"remote_port", 8081>>} }

VerboseFlags == {Text("v"), Text("vvv")}

SshHosts == {Text("miniserver.local")}

\* for cfg_params in config_dict['targets']: if cfg_params['name'] == target:
\* break.  The loop variable keeps the entry it stopped at: the match, or
\* the last entry when nothing matched; it stays unbound for an empty list.
RECURSIVE ForLoopVariable(_, _)
ForLoopVariable(targets, target) ==
    IF targets = <<>> THEN <<>>
    ELSE IF Head(targets).name = target \/ Len(targets) = 1
         THEN <<Head(targets)>>
         ELSE ForLoopVariable(Tail(targets), target)

\* The six if <option>: cfg_params.update(<option>=<option>).
ApplyOptions(d, opts) ==
    [k \in DOMAIN d \cup {o[1] : o \in opts} |->
        IF \E o \in opts : o[1] = k
        THEN (CHOOSE o \in opts : o[1] = k)[2]
        ELSE d[k]]

\* cfg_params.get(key): truthy when the key is there with a non-empty value.
Get(d, key) == key \in DOMAIN d /\ d[key] # <<>>

\* The keys cfg_params[...] reads when the side has no socket.
TcpKeys(side) == {side \o "_address", side \o "_port"}

\* cfg_params['<side>_sock'] if cfg_params.get('<side>_sock')
\* else f'{cfg_params["<side>_address"]}:{cfg_params["<side>_port"]}'
Unit(d, side) ==
    IF Get(d, side \o "_sock") THEN d[side \o "_sock"]
    ELSE d[side \o "_address"] \o <<":">> \o PortText(d[side \o "_port"])

\* '-{verbose} -NL {local_unit}:{remote_unit} {ssh_host}'.format(...)
CMD_TEMPLATE(verbose, lunit, runit, host) ==
    <<"-">> \o verbose \o <<" ", "-NL", " ">> \o lunit \o <<":">> \o runit
        \o <<" ">> \o host

\* str.split(): the maximal runs without whitespace.
RECURSIVE SplitFrom(_, _, _)
SplitFrom(txt, word, words) ==
    IF txt = <<>> THEN (IF word = <<>> THEN words ELSE Append(words, word))
    ELSE IF Head(txt) = " "
         THEN SplitFrom(Tail(txt), <<>>,
                        IF word = <<>> THEN words ELSE Append(words, word))
         ELSE SplitFrom(Tail(txt), Append(word, Head(txt)), words)

Split(txt) == SplitFrom(txt, <<>>, <<>>)

\* cmd_args = CMD_TEMPLATE.format(...).split(), then the extend.
CmdArgs(verbose, lunit, runit, host) ==
    Split(CMD_TEMPLATE(verbose, lunit, runit, host))
        \o <<Text("-o"), Text("StreamLocalBindUnlink=yes")>>

HeaderInfo(lunit, target, runit, host) ==
    [local_unit |-> lunit, local_name |-> target,
     remote_unit |-> runit, remote_name |-> host]

\* The session the model of the UI and the child starts from: the config's
\* analytics-web target over miniserver.local, no option given.
SessionCli ==
    [ssh_host |-> Text("miniserver.local"), target |-> "analytics-web",
     verbose |-> Text("v"), options |-> {}]

SessionParams == ApplyOptions(TargetWeb, SessionCli.options)

\* Nothing of the session has happened yet.
SessionUntouched ==
    /\ exc = "none"
    /\ child = "NOT_STARTED"
    /\ exit_code = "none"
    /\ cb = IdleCallback
    /\ pipe = [o \in Origins |-> <<>>]
    /\ ready = <<>>
    /\ scrollback = <<>>
    /\ focus = -1
    /\ in_queue = <<>>
    /\ delivered = <<>>
    /\ last_ui = <<"none", -1>>

\* run has built the loop and is about to spawn ssh.
Init ==
    /\ pc = "spawn"
    /\ SessionUntouched
    /\ cli = SessionCli
    /\ config_dict = [targets |-> <<TargetWeb, TargetSock>>]
    /\ cfg_params = <<SessionParams>>
    /\ local_unit = Unit(SessionParams, "local")
    /\ remote_unit = Unit(SessionParams, "remote")
    /\ cmd_args = CmdArgs(SessionCli.verbose, Unit(SessionParams, "local"),
                          Unit(SessionParams, "remote"), SessionCli.ssh_host)
    /\ tui_info = <<HeaderInfo(Unit(SessionParams, "local"), SessionCli.target,
                               Unit(SessionParams, "remote"), SessionCli.ssh_host)>>

\* run is entered with the config loaded: any arguments, any config.
InitArgs ==
    /\ pc = "lookup"
    /\ SessionUntouched
    /\ cli \in [ssh_host : SshHosts, target : TargetNames,
                verbose : VerboseFlags, options : OptionSets]
    /\ config_dict \in [targets : ConfigTargets]
    /\ cfg_params = <<>>
    /\ local_unit = <<>>
    /\ remote_unit = <<>>
    /\ cmd_args = <<>>
    /\ tui_info = <<>>

sessionvars == <<exc, child, exit_code, cb, pipe, ready, scrollback, focus,
                 in_queue, delivered, last_ui>>

\* The for loop over config_dict['targets'].
lookup_target ==
    /\ pc = "lookup"
    /\ cfg_params' = ForLoopVariable(config_dict.targets, cli.target)
    /\ pc' = "options"
    /\ UNCHANGED <<sessionvars, cli, config_dict, local_unit, remote_unit,
                   cmd_args, tui_info>>

\* The six updates; with an option given and cfg_params unbound the first
\* of them raises UnboundLocalError.
apply_options ==
    /\ pc = "options"
    /\ IF cfg_params = <<>> /\ cli.options # {}
       THEN /\ pc' = "raised"
            /\ exc' = "UnboundLocalError"
            /\ UNCHANGED cfg_params
       ELSE /\ pc' = "units"
            /\ cfg_params' = IF cfg_params = <<>> THEN <<>>
                             ELSE <<ApplyOptions(cfg_params[1], cli.options)>>
            /\ UNCHANGED exc
    /\ UNCHANGED <<child, exit_code, cb, pipe, ready, scrollback, focus,
                   in_queue, delivered, last_ui>>
    /\ UNCHANGED <<cli, config_dict, local_unit, remote_unit, cmd_args, tui_info>>

\* A side with neither a socket nor both of address and port: KeyError.
SideReadable(d, side) == Get(d, side \o "_sock") \/ TcpKeys(side) \subseteq DOMAIN d

\* local_unit = ..., remote_unit = ...
make_units ==
    /\ pc = "units"
    /\ IF cfg_params = <<>>
       THEN /\ pc' = "raised"
            /\ exc' = "UnboundLocalError"
            /\ UNCHANGED <<local_unit, remote_unit>>
       ELSE IF ~SideReadable(cfg_params[1], "local")
               \/ ~SideReadable(cfg_params[1], "remote")
       THEN /\ pc' = "raised"
            /\ exc' = "KeyError"
            /\ UNCHANGED <<local_unit, remote_unit>>
       ELSE /\ pc' = "cmd_args"
            /\ local_unit' = Unit(cfg_params[1], "local")
            /\ remote_unit' = Unit(cfg_params[1], "remote")
            /\ UNCHANGED exc
    /\ UNCHANGED <<child, exit_code, cb, pipe, ready, scrollback, focus,
                   in_queue, delivered, last_ui>>
    /\ UNCHANGED <<cli, config_dict, cfg_params, cmd_args, tui_info>>

\* cmd_args, tui_info, create_tui_loop(tui_info).
make_cmd_args ==
    /\ pc = "cmd_args"
    /\ cmd_args' = CmdArgs(cli.verbose, local_unit, remote_unit, cli.ssh_host)
    /\ tui_info' = <<HeaderInfo(local_unit, cli.target, remote_unit, cli.ssh_host)>>
    /\ pc' = "spawn"
    /\ UNCHANGED <<sessionvars, cli, config_dict, cfg_params, local_unit,
                   remote_unit>>


\* ------------------------------------------------------------ main thread
\* cmd = sh.ssh(..., _bg=True): the child runs, run goes on to loop.run().
sh_ssh ==
    /\ pc = "spawn"
    /\ pc' = "loop"
    /\ child' = "RUNNING"
    /\ UNCHANGED <<exc, exit_code, cb, pipe, ready, scrollback, focus,
                   in_queue, delivered, last_ui>>
    /\ UNCHANGED argvars

NavKeys == {"up", "down", "home", "end"}
QuitKeys == {"q", "Q"}

\* loop.run() is serving events: whether it goes on depends on the events
\* it watches alone, never on the child.
LoopRuns_WhileChildAlive == pc = "loop" /\ child = "RUNNING"
LoopRuns_AfterReturn == pc \in {"loop", "terminate", "wait"}
LoopRuns == pc = "loop"

\* The loop's select: the watched pipes that hold data, in the order they
\* were registered (write_from_out before write_from_err), then the
\* keyboard, which the loop registers when it starts, if q or Q was pressed.
\* (A navigation key changes nothing the pipes' handlers read, so it is
\* served as a batch of its own, in KeyNavigate.)
LoopSelect ==
    /\ LoopRuns
    /\ ready = <<>>
    /\ \E key \in QuitKeys \cup {"none"} :
         /\ ready' = SelectSeq(<<"out", "err">>, LAMBDA o : pipe[o] # <<>>)
                        \o (IF key = "none" THEN <<>> ELSE <<key>>)
         /\ ready' # <<>>
    /\ UNCHANGED <<pc, exc, child, exit_code, cb, pipe, scrollback, focus,
                   in_queue, delivered, last_ui>>
    /\ UNCHANGED argvars

\* list_walker.set_focus(len(list_walker) - 1), n the length after the append.
FocusAfterAppend_Sticky(n, old) == IF old = n - 2 THEN n - 1 ELSE old
FocusAfterAppend(n, old) == n - 1

\* list_walker.append(urwid.Text(text))
Appended_OnTop(sb, text) == <<text>> \o sb
Appended(sb, text) == Append(sb, text)

\* The loop serves one readable pipe: one os.read, then update_body(data).
update_body ==
    /\ LoopRuns
    /\ ready # <<>>
    /\ Head(ready) \in Origins
    /\ LET o    == Head(ready)
           n    == Min(ReadSize, Len(pipe[o]))
           data == SubSeq(pipe[o], 1, n)
           rest == SubSeq(pipe[o], n + 1, Len(pipe[o]))
       IN /\ pipe' = [pipe EXCEPT ![o] = rest]
          /\ IF Decodable(data)
             THEN /\ scrollback' = Appended(scrollback, Strip(Decode(data)))
                  /\ focus' = FocusAfterAppend(Len(scrollback) + 1, focus)
                  /\ last_ui' = <<"append", focus>>
                  /\ ready' = Tail(ready)
                  /\ UNCHANGED <<pc, exc>>
             ELSE \* data.decode() raises; nothing catches it in the loop
                  /\ pc' = "raised"
                  /\ exc' = "UnicodeDecodeError"
                  /\ UNCHANGED <<ready, scrollback, focus, last_ui>>
    /\ UNCHANGED <<child, exit_code, cb, in_queue, delivered>>
    /\ UNCHANGED argvars

\* The ListBox moves the focus on a navigation key.
FocusAfterKey(key) ==
    IF scrollback = <<>> THEN focus
    ELSE CASE key = "up"   -> IF focus > 0 THEN focus - 1 ELSE focus
           [] key = "down" -> IF focus < Len(scrollback) - 1 THEN focus + 1 ELSE focus
           [] key = "home" -> 0
           [] key = "end"  -> Len(scrollback) - 1

\* The loop serves the keyboard: a navigation key goes to the ListBox (a
\* key it cannot use falls through to exit_on_q, which ignores it).
KeyNavigate ==
    /\ LoopRuns
    /\ ready = <<>>
    /\ \E key \in NavKeys :
         /\ FocusAfterKey(key) # focus
         /\ focus' = FocusAfterKey(key)
         /\ last_ui' = <<"key", -1>>
    /\ UNCHANGED <<pc, exc, child, exit_code, cb, pipe, ready, scrollback,
                   in_queue, delivered>>
    /\ UNCHANGED argvars

\* unhandled_input: q or Q raises ExitMainLoop, loop.run() returns.
exit_on_q ==
    /\ LoopRuns
    /\ ready # <<>>
    /\ Head(ready) \in QuitKeys
    /\ pc' = "terminate"
    /\ ready' = <<>>
    /\ UNCHANGED <<exc, child, exit_code, cb, pipe, scrollback, focus,
                   in_queue, delivered, last_ui>>
    /\ UNCHANGED argvars

\* cmd.terminate(): os.kill(pid, SIGTERM).  A reaped pid no longer exists.
\* What SIGTERM makes of the process it is sent to: a running child starts
\* to terminate, a zombie takes the signal and stays what it is.
AfterSigterm_Always(c) == "TERMINATING"
AfterSigterm(c) == IF c = "RUNNING" THEN "TERMINATING" ELSE c

terminate ==
    /\ pc = "terminate"
    /\ CASE child = "REAPED" ->
              /\ pc' = "raised"
              /\ exc' = "ProcessLookupError"
              /\ UNCHANGED child
         [] OTHER ->
              /\ pc' = "wait"
              /\ child' = AfterSigterm(child)
              /\ UNCHANGED exc
    /\ UNCHANGED <<exit_code, cb, pipe, ready, scrollback, focus, in_queue,
                   delivered, last_ui>>
    /\ UNCHANGED argvars

\* The exit codes with which try: cmd.wait() leaves run going: 0, for which
\* wait raises nothing, and death by SIGTERM, whose exception run catches.
WaitSucceeds_NoExcept(code) == code = "0"
WaitSucceeds(code) == code \in {"0", "SIGTERM"}

\* cmd.wait(): returns once the child is reaped and the output thread has
\* been joined, then raises for an exit code that is not 0; run catches
\* SignalException_SIGTERM only.
wait ==
    /\ pc = "wait"
    /\ child = "REAPED"
    /\ cb.stage = "idle"
    /\ IF WaitSucceeds(exit_code)
       THEN pc' = "done" /\ UNCHANGED exc
       ELSE pc' = "raised" /\ exc' = "ErrorReturnCode"
    /\ UNCHANGED <<child, exit_code, cb, pipe, ready, scrollback, focus,
                   in_queue, delivered, last_ui>>
    /\ UNCHANGED argvars

\* ---------------------------------------------------- sh's output thread
\* The thread reads one line of the child's output and calls _out or _err.
CallbackInvoked ==
    /\ ProcessAlive
    /\ child \in {"RUNNING", "TERMINATING"}
    /\ cb.stage = "idle"
    /\ Len(delivered) < MaxLines
    /\ \E line \in ChildLines, o \in Origins :
         /\ cb' = [stage |-> "write", line |-> line, origin |-> o]
         /\ delivered' = Append(delivered, [origin |-> o, line |-> line])
    /\ UNCHANGED <<pc, exc, child, exit_code, pipe, ready, scrollback, focus,
                   in_queue, last_ui>>
    /\ UNCHANGED argvars

\* os.write(pipe_end, line.encode()): blocks while the pipe lacks the room.
interact_with_loop_write ==
    /\ ProcessAlive
    /\ cb.stage = "write"
    /\ Len(pipe[cb.origin]) + Len(Encode(cb.line)) <= PipeCap
    /\ pipe' = [pipe EXCEPT ![cb.origin] = @ \o Encode(cb.line)]
    /\ cb' = [cb EXCEPT !.stage = "respond"]
    /\ UNCHANGED <<pc, exc, child, exit_code, ready, scrollback, focus,
                   in_queue, delivered, last_ui>>
    /\ UNCHANGED argvars

\* line.startswith('Are you sure you want')
IsPrompt_AnyLine(line) == line # <<>>
IsPrompt(line) == StartsWith(line, PROMPT_PREFIX)

\* if line.startswith(...): in_queue.put('yes\n'); the callback returns.
interact_with_loop_respond ==
    /\ ProcessAlive
    /\ cb.stage = "respond"
    /\ in_queue' = IF IsPrompt(cb.line) THEN Append(in_queue, YES) ELSE in_queue
    /\ cb' = IdleCallback
    /\ UNCHANGED <<pc, exc, child, exit_code, pipe, ready, scrollback, focus,
                   delivered, last_ui>>
    /\ UNCHANGED argvars

\* ------------------------------------------------------------- the child
\* ssh ends on its own (connection refused, remote closed, ...).
OwnExitCodes == {"0", "255"}

\* ssh after SIGTERM: killed by the signal, or its handler exits with 255.
SigtermExitCodes == {"SIGTERM", "255"}

ChildExits ==
    /\ ProcessAlive
    /\ \/ child = "RUNNING" /\ exit_code' \in OwnExitCodes
       \/ child = "TERMINATING" /\ exit_code' \in SigtermExitCodes
    /\ child' = "ZOMBIE"
    /\ UNCHANGED <<pc, exc, cb, pipe, ready, scrollback, focus, in_queue,
                   delivered, last_ui>>
    /\ UNCHANGED argvars

\* sh's background thread (or wait itself) collects the exit status.
Reap ==
    /\ ProcessAlive
    /\ child = "ZOMBIE"
    /\ child' = "REAPED"
    /\ UNCHANGED <<pc, exc, exit_code, cb, pipe, ready, scrollback, focus,
                   in_queue, delivered, last_ui>>
    /\ UNCHANGED argvars

Next ==
    \/ sh_ssh
    \/ LoopSelect
    \/ update_body
    \/ KeyNavigate
    \/ exit_on_q
    \/ terminate
    \/ wait
    \/ CallbackInvoked
    \/ interact_with_loop_write
    \/ interact_with_loop_respond
    \/ ChildExits
    \/ Reap

Spec == Init /\ [][Next]_vars

\* run from its entry up to the spawn of ssh, for any arguments and config.
NextArgs ==
    \/ lookup_target
    \/ apply_options
    \/ make_units
    \/ make_cmd_args
    \/ sh_ssh

SpecArgs == InitArgs /\ [][NextArgs]_vars

\* ------------------------------------------------- vocabulary of the claims
\* The texts the callbacks were handed, as update_body would show each alone.
RECURSIVE LineTexts(_)
LineTexts(ds) ==
    IF ds = <<>> THEN <<>>
    ELSE <<Strip(ds[1].line)>> \o LineTexts(Tail(ds))

\* The characters of a sequence of texts, whitespace dropped, in order.
RECURSIVE Content(_)
Content(texts) ==
    IF texts = <<>> THEN <<>>
    ELSE SelectSeq(Head(texts), LAMBDA c : c \notin Whitespace)
         \o Content(Tail(texts))

IsPrefixOf(s, t) == Len(s) <= Len(t) /\ SubSeq(t, 1, Len(s)) = s

\* The delivered lines that begin with the prompt prefix.
NumPrompts(ds) ==
    Cardinality({i \in 1..Len(ds) : StartsWith(ds[i].line, PROMPT_PREFIX)})

\* The loop has returned: nothing reads the watch pipes any more.
LoopOver == pc \in {"terminate", "wait", "done", "raised"}

\* The callback is inside os.write and the pipe will never have the room.
CallbackStuck ==
    /\ LoopOver
    /\ cb.stage = "write"
    /\ Len(pipe[cb.origin]) + Len(Encode(cb.line)) > PipeCap

\* C1: when the user quits after the child has exited on its own and been
\* reaped, terminate() then wait() complete: the 'no such process' error of
\* the race never leaves run.
C1_TeardownToleratesRace ==
    ~(pc = "raised" /\ child = "REAPED" /\ exc = "ProcessLookupError")

\* C2: however the UI loop ends, run does not end while the child it
\* spawned is still running or unreaped.
C2_ChildNeverOrphaned ==
    (pc \in {"done", "raised"}) => child = "REAPED"

\* C3: once terminate() has been called and the child has died of the
\* signal, wait() returns in the end: run is never left in wait with
\* nothing that can still happen.
C3_WaitReturns ==
    (pc = "wait" /\ exit_code = "SIGTERM") => ENABLED Next

\* C4: a prompt line's response is on the input queue no later than the
\* line is in the scrollback: no prompt whose callback has yet to put its
\* response has already been read whole from its pipe and appended.
C4_ResponseBeforeAppend ==
    ~(/\ pc = "loop"
      /\ cb.stage = "respond"
      /\ StartsWith(cb.line, PROMPT_PREFIX)
      /\ pipe[cb.origin] = <<>>
      /\ scrollback # <<>>)

\* C5: scrollback shows the output in the order of delivery, whatever the
\* origin: its content is always a prefix of the delivered lines' content.
C5_DeliveryOrderKept ==
    IsPrefixOf(Content(scrollback), Content(LineTexts(delivered)))

\* C6: for lines of one origin, once every byte written has been read, the
\* scrollback is one entry per line, however the bytes were grouped.
C6_ChunkingInvariant ==
    (/\ pc = "loop"
     /\ \A i \in 1..Len(delivered) : delivered[i].origin = delivered[1].origin
     /\ cb.stage # "write"
     /\ \A o \in Origins : pipe[o] = <<>>)
    => scrollback = LineTexts(delivered)

\* C7: a decode failure on the child's output never ends the UI loop.
C7_DecodeNeverEndsLoop ==
    exc # "UnicodeDecodeError"

\* C8 as stated: an append made while the focus is away from the bottom
\* leaves the focus where it was.
C8_FocusKeptWhenScrolledAway ==
    (/\ last_ui[1] = "append"
     /\ Len(scrollback) >= 2
     /\ last_ui[2] # Len(scrollback) - 2)
    => focus = last_ui[2]

\* C8 as amended: every append moves the focus to the newest entry,
\* wherever it was before, the first append into the empty list included.
C8_AppendFocusesNewest ==
    (last_ui[1] = "append") => focus = Len(scrollback) - 1

\* An append happened while the user had scrolled away from the bottom.
C8_AppendedWhileScrolledAway ==
    /\ last_ui[1] = "append"
    /\ Len(scrollback) >= 2
    /\ last_ui[2] # Len(scrollback) - 2

\* C9: exactly one response per delivered prompt line: never more, and
\* none missing once the callback has returned, can no longer proceed or
\* run has ended.
C9_OneResponsePerPrompt ==
    /\ Len(in_queue) <= NumPrompts(delivered)
    /\ (cb.stage = "idle" \/ CallbackStuck \/ ~ProcessAlive)
         => Len(in_queue) = NumPrompts(delivered)

\* C10: the input queue changes only in the callback step that handles a
\* line beginning with the prompt prefix, and then by one 'yes\n'.
C10_NoFalsePositive ==
    [][in_queue' # in_queue =>
         /\ cb.stage = "respond"
         /\ StartsWith(cb.line, PROMPT_PREFIX)
         /\ in_queue' = Append(in_queue, YES)]_vars

\* A line without the prefix was handled after a prompt was answered.
C10_NonPromptHandled ==
    /\ cb.stage = "idle"
    /\ in_queue = <<YES>>
    /\ \E i \in 1..Len(delivered) :
         /\ i > 1
         /\ ~StartsWith(delivered[i].line, PROMPT_PREFIX)
         /\ StartsWith(delivered[1].line, PROMPT_PREFIX)

\* C11: a pressed q or Q ends the loop without raising, whatever the child
\* does: a quit key the loop has found is never lost to an exception that
\* leaves the loop before the key is served.
C11_QuitExitsWithoutRaising ==
    ~(/\ pc = "raised"
      /\ exc = "UnicodeDecodeError"
      /\ ready # <<>>
      /\ ready[Len(ready)] \in QuitKeys)

\* C12: a clean quit ends with success: when the child has died of the
\* signal terminate() sent and run has ended, run has returned normally.
C12_CleanQuitSucceeds ==
    (exit_code = "SIGTERM" /\ ~ProcessAlive) => (pc = "done" /\ exc = "none")

\* run has returned after the child died of the termination signal.
C12_ReturnedAfterSigterm ==
    pc = "done" /\ exit_code = "SIGTERM" /\ child = "REAPED"


\* ------------------------------------------------ claims on the arguments
\* The requested target is the name of an entry of the config.
KnownTarget ==
    \E i \in DOMAIN config_dict.targets : config_dict.targets[i].name = cli.target

\* cfg_params holds the resolved target: the entry plus the overrides.
Resolved == cfg_params # <<>> /\ pc \notin {"lookup", "options"}

SockBoth(d) == Get(d, "local_sock") /\ Get(d, "remote_sock")

TcpBoth(d) ==
    /\ ~Get(d, "local_sock") /\ ~Get(d, "remote_sock")
    /\ TcpKeys("local") \cup TcpKeys("remote") \subseteq DOMAIN d

MixedShape(d) == Get(d, "local_sock") # Get(d, "remote_sock")

\* The forward specification the claim writes out for each shape.
ForwardOf(d) ==
    IF SockBoth(d) THEN d.local_sock \o <<":">> \o d.remote_sock
    ELSE d.local_address \o <<":">> \o PortText(d.local_port) \o <<":">>
         \o d.remote_address \o <<":">> \o PortText(d.remote_port)

ArgvOf(d) ==
    << <<"-">> \o cli.verbose, Text("-NL"), ForwardOf(d), cli.ssh_host,
       Text("-o"), Text("StreamLocalBindUnlink=yes") >>

\* C13: when the requested target is the name of no entry of the config,
\* run ends in an error and the child is never spawned.
C13_UnknownTargetNeverSpawns ==
    ~KnownTarget => child = "NOT_STARTED"

\* C14: when the resolved target of a known name has a socket on one side
\* and address/port on the other, no child is spawned.
C14_MixedShapeNeverSpawns ==
    (KnownTarget /\ Resolved /\ MixedShape(cfg_params[1]))
        => child = "NOT_STARTED"

\* C15: for a known target with address/port on both sides or sockets on
\* both sides, the argv of the spawned child is exactly the six arguments
\* of its shape, and the header's units are the ones in the forward argument.
C15_ArgvByShape ==
    (/\ child = "RUNNING"
     /\ KnownTarget
     /\ TcpBoth(cfg_params[1]) \/ SockBoth(cfg_params[1]))
        => /\ cmd_args = ArgvOf(cfg_params[1])
           /\ tui_info[1].local_unit \o <<":">> \o tui_info[1].remote_unit
                  = cmd_args[3]


\* ------------------------------------------------ claims on the session
\* The blank lines among the delivered ones, the empty entries shown.
BlankLines(ds) == {i \in 1..Len(ds) : Strip(ds[i].line) = <<>>}

EmptyEntries(sb) == {i \in 1..Len(sb) : sb[i] = <<>>}

\* Every byte the callbacks were handed has been read by the loop.
AllRead ==
    /\ pc = "loop"
    /\ cb.stage # "write"
    /\ \A o \in Origins : pipe[o] = <<>>

\* C16: every blank line the child outputs yields its own empty entry:
\* once every byte has been read, the scrollback holds at least as many
\* empty entries as blank lines were delivered.
C16_BlankLinesKept ==
    AllRead => Cardinality(EmptyEntries(scrollback))
                  >= Cardinality(BlankLines(delivered))


ExitedOnItsOwn == child \in {"ZOMBIE", "REAPED"} /\ exit_code \in OwnExitCodes

\* C17: terminate() and wait() act only once the loop has exited, and no
\* step of the loop follows them; a child that exits on its own leaves the
\* loop where it is, and where the loop is suspended in its select, a key
\* or a readable pipe still wakes it.
C17_TeardownOnlyAfterLoop ==
    /\ [](child = "TERMINATING" => LoopOver)
    /\ []((pc = "loop" /\ ready = <<>> /\ child \in {"ZOMBIE", "REAPED"})
             => ENABLED LoopSelect)
    /\ [][(child' # child /\ child' \in {"ZOMBIE", "REAPED"}) => pc' = pc]_vars
    /\ [][LoopOver => LoopOver' /\ UNCHANGED <<scrollback, focus, ready>>]_vars

\* The child is gone by itself and reaped; the loop is still running, with
\* entries shown and events at hand to serve.
C17_LoopRunningAfterOwnExit ==
    /\ pc = "loop"
    /\ ExitedOnItsOwn
    /\ child = "REAPED"
    /\ ready # <<>>
    /\ scrollback # <<>>


\* A step of the callback thread.
CallbackStep ==
    CallbackInvoked \/ interact_with_loop_write \/ interact_with_loop_respond

\* C18: the scrollback and the focus change only in steps the loop's thread
\* takes while the loop runs, an append when it serves a readable pipe and
\* a move of the focus for a key; a step of the callback thread changes
\* nothing but the pipes, the input queue and its own position.
C18_SingleWriter ==
    /\ [][scrollback' # scrollback =>
            /\ pc = "loop" /\ ready # <<>> /\ Head(ready) \in Origins
            /\ UNCHANGED <<cb, in_queue, delivered>>]_vars
    /\ [][focus' # focus =>
            /\ pc = "loop"
            /\ UNCHANGED <<cb, in_queue, delivered>>]_vars
    /\ [][CallbackStep =>
            UNCHANGED <<scrollback, focus, ready, pc, exc, child>>]_vars

\* The callback thread has written and answered, the loop has appended.
C18_BothThreadsActed ==
    /\ cb.stage = "respond"
    /\ in_queue # <<>>
    /\ last_ui[1] = "append"
    /\ scrollback # <<>>

\* The lifecycle state of the child: a zombie and a reaped child have exited.
Lifecycle(c) ==
    CASE c = "NOT_STARTED" -> 0
      [] c = "RUNNING"     -> 1
      [] c = "TERMINATING" -> 2
      [] OTHER             -> 3

\* C19: the child's lifecycle never moves back; it starts running from
\* NOT_STARTED only, and starts terminating only from RUNNING, in the
\* terminate() that follows the user's quit.
C19_LifecycleForward ==
    /\ [][Lifecycle(child') >= Lifecycle(child)]_vars
    /\ [][(Lifecycle(child') = 1 /\ Lifecycle(child) # 1) => child = "NOT_STARTED"]_vars
    /\ [][(Lifecycle(child') = 2 /\ Lifecycle(child) # 2) =>
             child = "RUNNING" /\ pc = "terminate" /\ pc' = "wait"]_vars
    /\ [](Lifecycle(child) = 0 <=> pc = "spawn")

\* terminate() has been called on a child that had exited on its own: it
\* went from RUNNING to exited, and stays there.
C19_TerminateAfterOwnExit ==
    pc = "wait" /\ child = "ZOMBIE" /\ exit_code = "0"

\* The lines delivered through one callback.
LinesOf(ds, o) == SelectSeq(ds, LAMBDA d : d.origin = o)

\* s is a merge of a prefix of a with a prefix of b.
RECURSIVE IsMergeOfPrefixes(_, _, _)
IsMergeOfPrefixes(s, a, b) ==
    \/ s = <<>>
    \/ a # <<>> /\ Head(a) = Head(s) /\ IsMergeOfPrefixes(Tail(s), Tail(a), b)
    \/ b # <<>> /\ Head(b) = Head(s) /\ IsMergeOfPrefixes(Tail(s), a, Tail(b))

\* C20: the scrollback's content keeps, for each callback, the order of
\* the lines delivered through it, and no step removes, reorders or
\* rewrites an entry the scrollback already has.
C20_FifoAppendOnly ==
    /\ [](IsMergeOfPrefixes(Content(scrollback),
                            Content(LineTexts(LinesOf(delivered, "out"))),
                            Content(LineTexts(LinesOf(delivered, "err")))))
    /\ [][IsPrefixOf(scrollback, scrollback')]_vars

\* Three lines of one callback are shown, after the user has moved the focus.
C20_SeveralShownAfterKey ==
    /\ Len(scrollback) >= 3
    /\ last_ui[1] = "append"
    /\ last_ui[2] # Len(scrollback) - 2
    /\ \A i \in 1..Len(delivered) : delivered[i].origin = "out"
    /\ Content(scrollback) # <<>>

====
